---- MODULE Spec2Model ----
(***************************************************************************)
(* DRAGON-X prediction service (src/app.py): the in-memory logs, the       *)
(* prediction engine, the polling cycle and the persistence of the logs.   *)
(*                                                                         *)
(* Representation.  A category is "B" (Big) or "S" (Small); the engine's   *)
(* skip verdict is the category "SKIP".  A period is the integer that the  *)
(* feed's issueNumber string encodes; NonIntPeriod stands for an           *)
(* issueNumber that int() rejects.  The suggested number '-' of a skip     *)
(* verdict is NoNum: it equals no number of the feed.  A sequence is a     *)
(* Python list or deque read from index 0, so the logs are newest first.   *)
(* used_pattern is kept as the label that the substring tests of the       *)
(* confidence and bias sections look for; the matched key and the          *)
(* percentages that the source formats into it are left out.               *)
(***************************************************************************)
EXTENDS Integers, Sequences, FiniteSets, TLC

VARIABLES state,        \* state["trends"], state["predictions"]: the logs, newest first
          disk,         \* contents of HISTORY_FILE
          outcome,      \* how the last cycle of prediction_job ended
          engine_out,   \* what the last call of dragonx_engine returned
          cycles,       \* cycles run so far
          job,          \* where the scheduler's thread is in prediction_job
          reader        \* where a request thread is in get_history or get_prediction

vars == <<state, disk, outcome, engine_out, cycles, job, reader>>

\* ---------------------------------------------------------------- constants

TrendsMaxLen == 1000
PredictionsMaxLen == 200
\* the cold start test with 9 for 10
ColdStartLen_short == 9

ColdStartLen == 10
\* the dragon test with a streak of 7 for 6
DragonStreak_long == 7

DragonStreak == 6
NoNum == -1
NonIntPeriod == -1

None == "None"

\* ---------------------------------------------------------------- lists

Min(a, b) == IF a < b THEN a ELSE b
Max(a, b) == IF a > b THEN a ELSE b

\* reversed(seq)
Reversed(seq) == [i \in 1..Len(seq) |-> seq[Len(seq) + 1 - i]]

\* seq[-k:]
LastK(seq, k) == IF Len(seq) <= k THEN seq ELSE SubSeq(seq, Len(seq) - k + 1, Len(seq))

\* seq[:k]
FirstK(seq, k) == IF Len(seq) <= k THEN seq ELSE SubSeq(seq, 1, k)

\* [x for x in seq if Keep(x)] is SelectSeq(seq, Keep)

\* sum(1 for x in seq if Test(x)) is Len(SelectSeq(seq, Test))

RECURSIVE Sum(_)
Sum(seq) == IF seq = <<>> THEN 0 ELSE Head(seq) + Sum(Tail(seq))

\* appendleft on a full deque taking the entry at index 0 out, not the last
AppendLeft_evict_newest(dq, x, cap) ==
  IF Len(dq) < cap THEN <<x>> \o dq ELSE <<x>> \o Tail(dq)

\* deque.appendleft(x) on a deque of maxlen cap
AppendLeft(dq, x, cap) == FirstK(<<x>> \o dq, cap)

\* deque(items, maxlen=cap): the items are appended one by one
Deque(items, cap) == LastK(items, cap)

\* ---------------------------------------------------------------- helpers

get_bs(num) == IF num >= 5 THEN "B" ELSE "S"

Opposite(c) == IF c = "B" THEN "S" ELSE "B"

detect_alternating(seq) ==
  IF Len(seq) < 3 THEN None
  ELSE IF \E i \in 2..Len(seq) : seq[i] = seq[i - 1] THEN None
  ELSE Opposite(seq[Len(seq)])

count_streak(seq) ==
  IF seq = <<>> THEN [value |-> None, count |-> 0]
  ELSE LET last == seq[Len(seq)]
           \* the positions before the last one that break the run
           breaks == {i \in 1..(Len(seq) - 1) : seq[i] # last}
           stop == IF breaks = {} THEN 0
                   ELSE CHOOSE i \in breaks : \A j \in breaks : j <= i
       IN [value |-> last, count |-> Len(seq) - stop]

STREAK_BREAK_PATTERNS ==
  <<
    <<"B","B","B","S">>, <<"B","B","S","B">>, <<"B","S","B","B">>, <<"S","B","B","B">>, <<"S","S","S","B">>, <<"S","S","B","S">>, <<"S","B","S","S">>, <<"B","S","S","S">>,
    <<"B","B","S","S">>, <<"B","S","S","B">>, <<"S","S","B","B">>, <<"S","B","B","S">>, <<"B","S","B","S">>, <<"S","B","S","B">>, <<"B","B","B","B">>, <<"S","S","S","S">>,
    <<"B","B","B","B","B","S">>, <<"B","B","B","B","S","B">>, <<"B","B","B","S","B","B">>, <<"B","B","S","B","B","B">>, <<"B","S","B","B","B","B">>, <<"S","B","B","B","B","B">>,
    <<"S","S","S","S","S","B">>, <<"S","S","S","S","B","S">>, <<"S","S","S","B","S","S">>, <<"S","S","B","S","S","S">>, <<"S","B","S","S","S","S">>, <<"B","S","S","S","S","S">>,
    <<"B","B","B","S","S","B">>, <<"B","B","S","S","B","B">>, <<"B","S","S","B","B","B">>, <<"S","S","B","B","B","S">>, <<"S","B","B","B","S","S">>, <<"B","B","B","S","S","S">>,
    <<"B","B","S","S","S","B">>, <<"B","S","S","S","B","B">>, <<"S","S","S","B","B","B">>, <<"S","S","B","B","B","S">>, <<"S","B","B","B","S","S">>, <<"B","B","S","S","B","S">>,
    <<"B","S","S","B","B","S">>, <<"S","S","B","B","S","S">>, <<"S","B","B","S","S","B">>, <<"B","B","S","S","B","B">>, <<"B","S","S","B","S","S">>, <<"S","S","B","B","S","B">>,
    <<"B","B","S","B","S","B">>, <<"S","B","B","S","B","B">>, <<"B","S","B","S","B","S">>, <<"S","B","S","B","S","B">>, <<"B","B","S","S","B","B">>, <<"S","S","B","B","S","S">>,
    <<"B","S","S","B","S","S">>, <<"S","B","B","S","S","B">>, <<"B","B","S","S","B","S">>, <<"S","B","S","S","B","B">>, <<"B","S","S","B","B","B">>, <<"S","B","B","S","B","S">>,
    <<"S","S","S","B","B","S">>, <<"B","B","S","S","S","B">>, <<"S","B","B","B","S","B">>, <<"B","B","B","B","B","B","B">>, <<"S","S","S","S","S","S","S">>, <<"B","B","B","B","B","B","S">>, <<"S","S","S","S","S","S","B">>,
    <<"B","B","B","B","S","B","B">>, <<"S","S","S","B","S","S","S">>, <<"B","B","B","S","B","B","B">>, <<"B","B","S","B","B","B","B">>, <<"B","S","B","B","B","B","B">>, <<"S","S","B","B","S","S","B">>, <<"S","B","S","S","B","B","S">>, <<"S","S","B","B","S","B","S">>,
    <<"B","B","S","B","B","S","B">>, <<"S","B","S","B","S","B","S">>, <<"B","S","S","B","S","S","B">>, <<"S","S","B","B","S","S","S">>, <<"B","B","S","S","S","S","S">>, <<"S","S","B","B","B","S","S">>, <<"B","S","S","B","B","B","S">>, <<"S","S","B","S","S","B","B">>,
    <<"B","B","B","B","B","B">>, <<"S","S","S","S","S","S">>, <<"B","B","B","S","S","B">>, <<"S","S","B","B","S","S">>, <<"B","B","S","B","S","B">>, <<"S","B","B","S","B","B">>, <<"B","S","B","S","B","S">>, <<"S","B","S","B","S","B">>,
    <<"B","B","S","S","B","B">>, <<"S","S","B","B","S","S">>, <<"B","S","S","B","S","S">>, <<"S","B","B","S","S","B">>, <<"B","B","S","S","B","S">>, <<"S","B","S","S","B","B">>, <<"B","S","S","B","B","B">>, <<"S","B","B","S","B","S">>,
    <<"S","S","S","B","B","S">>, <<"B","B","S","S","S","B">>, <<"S","B","B","B","S","B">>, <<"B","B","S","S","B">>, <<"S","S","B","B","S">>, <<"B","S","B","B","S">>, <<"S","B","S","B","B">>,
    <<"B","B","B","S","S">>, <<"S","S","S","B","B">>, <<"S","B","S","S","B">>, <<"B","S","S","S","B">>, <<"S","B","B","S","B">>, <<"S","S","B","S","S">>
  >>


\* ---------------------------------------------------------------- engine

Range(seq) == {seq[i] : i \in 1..Len(seq)}

\* pattern_map of one length: its keys; every key p maps to Opposite(p[1])
PatternMap(length) == {p \in Range(STREAK_BREAK_PATTERNS) : Len(p) = length}


\* the maps built shortest first: range(5, 11)
MapLengths_ascending == <<5, 6, 7, 8, 9, 10>>

\* the lengths for which maps are built, longest first: range(10, 4, -1)
MapLengths == <<10, 9, 8, 7, 6, 5>>

\* the substrings of used_pattern that the confidence and bias sections test
Words(used_pattern) ==
  CASE used_pattern = "10-digit MATCH" -> {"10-digit", "digit"}
    [] used_pattern = "9-digit MATCH" -> {"9-digit", "digit"}
    [] used_pattern = "8-digit MATCH" -> {"8-digit", "digit"}
    [] used_pattern = "7-digit MATCH" -> {"7-digit", "digit"}
    [] used_pattern = "6-digit MATCH" -> {"6-digit", "digit"}
    [] used_pattern = "5-digit MATCH" -> {"5-digit", "digit"}
    [] used_pattern = "SHORT_STREAK_REVERSAL" -> {"SHORT_STREAK", "STREAK"}
    [] used_pattern = "ALTERNATING" -> {"ALTERNATING"}
    [] used_pattern = "BIG DOMINANCE" -> {"DOMINANCE"}
    [] used_pattern = "SMALL DOMINANCE" -> {"DOMINANCE"}
    [] used_pattern = "MOMENTUM" -> {"MOMENTUM"}
    [] OTHER -> {}

\* f"{length}-digit MATCH: ..."
MatchLabel(length) ==
  CASE length = 10 -> "10-digit MATCH"
    [] length = 9 -> "9-digit MATCH"
    [] length = 8 -> "8-digit MATCH"
    [] length = 7 -> "7-digit MATCH"
    [] length = 6 -> "6-digit MATCH"
    [] OTHER -> "5-digit MATCH"

ColdStart(recent_numbers) ==
  [bs |-> IF recent_numbers = <<>> \/ Sum(recent_numbers) >= 5 * Len(recent_numbers)
          THEN "B" ELSE "S",
   num |-> 5,
   confidence |-> 55,
   logic |-> "STATISTICAL_FALLBACK",
   bias |-> "NEUTRAL"]

IsLose(p) == p.result = "Lose"
IsGraded(p) == p.result # "P"

\* the dragon risk test with the losses of skips left out of the 3 looked at
FlipLosses_past_skips(streak, predictions) ==
  LET recent_losses ==
        FirstK(SelectSeq(predictions, LAMBDA p : IsLose(p) /\ p.bs # "SKIP"), 3)
      Flip(p) == \/ streak.value = "B" /\ p.bs = "S"
                 \/ streak.value = "S" /\ p.bs = "B"
  IN Len(SelectSeq(recent_losses, Flip))

\* the dragon risk test on a streak already found
FlipLosses(streak, predictions) ==
  LET recent_losses == FirstK(SelectSeq(predictions, IsLose), 3)
      Flip(p) == \/ streak.value = "B" /\ p.bs = "S"
                 \/ streak.value = "S" /\ p.bs = "B"
  IN Len(SelectSeq(recent_losses, Flip))

DragonSkip(streak, predictions) ==
  /\ streak.count >= DragonStreak
  /\ FlipLosses(streak, predictions) >= 2

SkipVerdict ==
  [bs |-> "SKIP", num |-> NoNum, confidence |-> 0,
   logic |-> "HIGH-RISK DRAGON DETECTED", bias |-> "DRAGON_RISK"]

\* the loop over maps: the first length whose key is in its map, 0 if none
MatchedLength(natural_order) ==
  LET hits == {i \in 1..Len(MapLengths) :
                 /\ Len(natural_order) >= MapLengths[i]
                 /\ LastK(natural_order, MapLengths[i]) \in PatternMap(MapLengths[i])}
  IN IF hits = {} THEN 0
     ELSE MapLengths[CHOOSE i \in hits : \A j \in hits : i <= j]

\* the fallback logic with the share of Big taken over the whole history
Fallback_whole_history(natural_order, streak) ==
  IF 4 <= streak.count /\ streak.count < 6
  THEN [prediction |-> Opposite(streak.value), used_pattern |-> "SHORT_STREAK_REVERSAL"]
  ELSE LET alt == detect_alternating(LastK(natural_order, 10))
           window == natural_order
           bigs == Len(SelectSeq(window, LAMBDA c : c = "B"))
       IN IF alt # None
          THEN [prediction |-> alt, used_pattern |-> "ALTERNATING"]
          ELSE IF window # <<>> /\ 100 * bigs >= 72 * Len(window)
          THEN [prediction |-> "B", used_pattern |-> "BIG DOMINANCE"]
          ELSE IF window # <<>> /\ 100 * bigs <= 28 * Len(window)
          THEN [prediction |-> "S", used_pattern |-> "SMALL DOMINANCE"]
          ELSE [prediction |-> natural_order[Len(natural_order)],
                used_pattern |-> "MOMENTUM"]

\* the fallback logic, taken when no pattern matched
Fallback(natural_order, streak) ==
  IF 4 <= streak.count /\ streak.count < 6
  THEN [prediction |-> Opposite(streak.value), used_pattern |-> "SHORT_STREAK_REVERSAL"]
  ELSE LET alt == detect_alternating(LastK(natural_order, 10))
           window == LastK(natural_order, 30)
           bigs == Len(SelectSeq(window, LAMBDA c : c = "B"))
       IN IF alt # None
          THEN [prediction |-> alt, used_pattern |-> "ALTERNATING"]
          ELSE IF window # <<>> /\ 100 * bigs >= 72 * Len(window)
          THEN [prediction |-> "B", used_pattern |-> "BIG DOMINANCE"]
          ELSE IF window # <<>> /\ 100 * bigs <= 28 * Len(window)
          THEN [prediction |-> "S", used_pattern |-> "SMALL DOMINANCE"]
          ELSE [prediction |-> natural_order[Len(natural_order)],
                used_pattern |-> "MOMENTUM"]


\* the match mapped to the opposite of the last character of the key
Matched_last(natural_order, length) ==
  IF length # 0
  THEN [prediction |-> Opposite(natural_order[Len(natural_order)]),
        used_pattern |-> MatchLabel(length)]
  ELSE Fallback(natural_order, count_streak(natural_order))

\* prediction and used_pattern once the loop over maps has ended with length
Matched(natural_order, length) ==
  IF length # 0
  THEN [prediction |-> Opposite(LastK(natural_order, length)[1]),
        used_pattern |-> MatchLabel(length)]
  ELSE Fallback(natural_order, count_streak(natural_order))

\* prediction and used_pattern after the pattern maps and the fallback logic
Decide(natural_order) == Matched(natural_order, MatchedLength(natural_order))


\* the confidence scale with the 7-digit and 8-digit values swapped
BaseConf_swapped(used_pattern) ==
  LET w == Words(used_pattern)
  IN CASE "10-digit" \in w -> 98
       [] "9-digit" \in w -> 97
       [] "8-digit" \in w -> 94
       [] "7-digit" \in w -> 96
       [] "6-digit" \in w -> 90
       [] "DOMINANCE" \in w -> 85
       [] "MOMENTUM" \in w -> 75
       [] "SHORT_STREAK" \in w -> 80
       [] "ALTERNATING" \in w -> 82
       [] OTHER -> 60

BaseConf(used_pattern) ==
  LET w == Words(used_pattern)
  IN CASE "10-digit" \in w -> 98
       [] "9-digit" \in w -> 97
       [] "8-digit" \in w -> 96
       [] "7-digit" \in w -> 94
       [] "6-digit" \in w -> 90
       [] "DOMINANCE" \in w -> 85
       [] "MOMENTUM" \in w -> 75
       [] "SHORT_STREAK" \in w -> 80
       [] "ALTERNATING" \in w -> 82
       [] OTHER -> 60

\* the penalty taken from a loss rate of one half on
LossPenalty_half(predictions) ==
  LET recent_preds == FirstK(SelectSeq(predictions, IsGraded), 10)
  IN /\ recent_preds # <<>>
     /\ 10 * Len(SelectSeq(recent_preds, IsLose)) >= 5 * Len(recent_preds)

\* loss_rate > 0.6 over the 10 most recent graded predictions
LossPenalty(predictions) ==
  LET recent_preds == FirstK(SelectSeq(predictions, IsGraded), 10)
  IN /\ recent_preds # <<>>
     /\ 10 * Len(SelectSeq(recent_preds, IsLose)) > 6 * Len(recent_preds)

\* the confidence without the floor and the clamp
Confidence_unclamped(used_pattern, predictions) ==
  IF LossPenalty(predictions) THEN BaseConf(used_pattern) - 15
  ELSE BaseConf(used_pattern)

Confidence(used_pattern, predictions) ==
  LET base_conf == IF LossPenalty(predictions)
                   THEN Max(55, BaseConf(used_pattern) - 15)
                   ELSE BaseConf(used_pattern)
  IN Min(98, Max(55, base_conf))


\* the pools one too low: range(4, 9) and range(0, 4)
Pool_low(prediction) == IF prediction = "B" THEN <<4, 5, 6, 7, 8>> ELSE <<0, 1, 2, 3>>

Pool(prediction) == IF prediction = "B" THEN <<5, 6, 7, 8, 9>> ELSE <<0, 1, 2, 3, 4>>

\* counts[n] += 1 raises IndexError outside -10..9; a negative n counts from the end
CountsIndexOk(n) == -10 <= n /\ n <= 9
CountsIndex(n) == IF n < 0 THEN n + 10 ELSE n

\* ten times the score of candidate n
Score(n, recent_numbers) ==
  LET counts == Len(SelectSeq(LastK(recent_numbers, 60), LAMBDA m : CountsIndex(m) = n))
      last_10_nums == LastK(recent_numbers, 10)
      even_bias == Len(SelectSeq(last_10_nums, LAMBDA m : m % 2 = 0)) > 5
  IN 10 * (1 + counts)
     + (IF n \in Range(last_10_nums) THEN 12 ELSE 0)
     + (IF (even_bias /\ n % 2 = 0) \/ (~even_bias /\ n % 2 = 1) THEN 7 ELSE 0)

\* the number of the newest prediction taken out whatever its result
Weighted_any_result(prediction, predictions) ==
  IF predictions # <<>>
  THEN SelectSeq(Pool(prediction), LAMBDA n : n # predictions[1].num)
  ELSE Pool(prediction)

\* the candidates left after the last losing number is taken out
Weighted(prediction, predictions) ==
  IF predictions # <<>> /\ predictions[1].result = "Lose"
  THEN SelectSeq(Pool(prediction), LAMBDA n : n # predictions[1].num)
  ELSE Pool(prediction)

\* weighted.sort(reverse=True) is stable: the first of the best candidates
FinalNum(prediction, recent_numbers, predictions) ==
  LET weighted == Weighted(prediction, predictions)
      best == {i \in 1..Len(weighted) :
                 \A j \in 1..Len(weighted) :
                    Score(weighted[j], recent_numbers) <= Score(weighted[i], recent_numbers)}
  IN IF weighted = <<>> THEN Pool(prediction)[1]
     ELSE weighted[CHOOSE i \in best : \A j \in best : i <= j]

Bias(used_pattern) ==
  LET w == Words(used_pattern)
  IN CASE "DOMINANCE" \in w \/ "MOMENTUM" \in w -> "MOMENTUM_BIAS"
       [] "STREAK" \in w -> "REVERSAL_BIAS"
       [] "digit" \in w -> "PATTERN_BIAS"
       [] "ALTERNATING" \in w -> "CHOP_BIAS"
       [] OTHER -> "NEUTRAL"

\* the call raises IndexError in the number selection
EngineRaises(recent_numbers, recent_bs, predictions) ==
  /\ Len(recent_numbers) >= ColdStartLen
  /\ ~DragonSkip(count_streak(Reversed(recent_bs)), predictions)
  /\ \E i \in 1..Len(LastK(recent_numbers, 60)) :
        ~CountsIndexOk(LastK(recent_numbers, 60)[i])

\* the returned record, from the decision d on
Verdict(d, recent_numbers, predictions) ==
  [bs |-> d.prediction,
   num |-> FinalNum(d.prediction, recent_numbers, predictions),
   confidence |-> Confidence(d.used_pattern, predictions),
   logic |-> d.used_pattern,
   bias |-> Bias(d.used_pattern)]

\* the engine past the cold start, on the oldest-first categories
EngineOn(recent_numbers, natural_order, predictions) ==
  IF DragonSkip(count_streak(natural_order), predictions) THEN SkipVerdict
  ELSE Verdict(Decide(natural_order), recent_numbers, predictions)

dragonx_engine(recent_numbers, recent_bs, predictions) ==
  IF Len(recent_numbers) < ColdStartLen THEN ColdStart(recent_numbers)
  ELSE EngineOn(recent_numbers, Reversed(recent_bs), predictions)

\* ---------------------------------------------------------------- persistence

EmptyState == [trends |-> <<>>, predictions |-> <<>>]

\* no HISTORY_FILE yet
NoFile == [status |-> "absent", trends |-> <<>>, predictions |-> <<>>]

\* a file that json.load rejects
CorruptFile == [status |-> "corrupt", trends |-> <<>>, predictions |-> <<>>]

\* save_history: the file after the call.  write is how the write went:
\* "written", "open_failed" (the file is left alone) or "truncated" (open
\* emptied the file and json.dump did not finish); a failure is only logged.
save_history(st, dsk, write) ==
  CASE write = "written" ->
         [status |-> "valid", trends |-> st.trends, predictions |-> st.predictions]
    [] write = "open_failed" -> dsk
    [] OTHER -> CorruptFile

\* load_history with the two maxlen values taken for each other
load_history_swapped(st, dsk) ==
  CASE dsk.status = "absent" -> st
    [] dsk.status = "valid" ->
         [trends |-> Deque(dsk.trends, PredictionsMaxLen),
          predictions |-> Deque(dsk.predictions, TrendsMaxLen)]
    [] OTHER -> EmptyState

\* load_history onto the state st of a process
load_history(st, dsk) ==
  CASE dsk.status = "absent" -> st
    [] dsk.status = "valid" ->
         [trends |-> Deque(dsk.trends, TrendsMaxLen),
          predictions |-> Deque(dsk.predictions, PredictionsMaxLen)]
    [] OTHER -> EmptyState

\* ---------------------------------------------------------------- main job

\* the grading without its Jackpot branch
Grade_no_jackpot(last_pred, bs, number) ==
  IF last_pred.bs = bs THEN "Win" ELSE "Lose"

\* the grading of the newest prediction against an observation
Grade(last_pred, bs, number) ==
  IF last_pred.bs = bs /\ last_pred.num = number THEN "Jackpot"
  ELSE IF last_pred.bs = bs THEN "Win"
  ELSE "Lose"

Graded(predictions, period, bs, number) ==
  IF predictions # <<>> /\ predictions[1].period = period
  THEN [predictions EXCEPT ![1].result = Grade(predictions[1], bs, number)]
  ELSE predictions

Nums(trends) == [i \in 1..Len(trends) |-> trends[i].num]
Bss(trends) == [i \in 1..Len(trends) |-> trends[i].bs]

Result(st, dsk, outcome_, engine_out_) ==
  [state |-> st, disk |-> dsk, outcome |-> outcome_, engine_out |-> engine_out_]

\* the record that prediction_job appends for the engine's answer pred
Record(next_period, pred) ==
  [period |-> next_period, bs |-> pred.bs, num |-> pred.num,
   confidence |-> pred.confidence, logic |-> pred.logic, bias |-> pred.bias,
   result |-> "P"]

\* the end of a cycle that raised nothing: save_history on the logs st
Saved(st, dsk, write, engine_out_) ==
  Result(st, save_history(st, dsk, write), "ok", engine_out_)

\* the cycle from the engine's answer on
WithPred(trends1, preds1, dsk, resp, pred) ==
  Saved([trends |-> trends1,
         predictions |-> AppendLeft(preds1, Record(resp.period + 1, pred),
                                    PredictionsMaxLen)],
        dsk, resp.write, <<pred>>)

\* the cycle looking for the next period at index 0 of the log only
AfterGrade_newest_only(trends1, preds1, dsk, resp) ==
  IF resp.period = NonIntPeriod
  THEN Result([trends |-> trends1, predictions |-> preds1], dsk, "failed", <<>>)
  ELSE IF preds1 # <<>> /\ preds1[1].period = resp.period + 1
  THEN Saved([trends |-> trends1, predictions |-> preds1], dsk, resp.write, <<>>)
  ELSE IF EngineRaises(Nums(trends1), Bss(trends1), preds1)
  THEN Result([trends |-> trends1, predictions |-> preds1], dsk, "failed", <<>>)
  ELSE WithPred(trends1, preds1, dsk, resp,
                dragonx_engine(Nums(trends1), Bss(trends1), preds1))

\* the cycle after the observation was put on the history and the newest
\* prediction was graded; an exception ends the cycle with the logs as they are
AfterGrade(trends1, preds1, dsk, resp) ==
  IF resp.period = NonIntPeriod
  THEN Result([trends |-> trends1, predictions |-> preds1], dsk, "failed", <<>>)
  ELSE IF \E i \in 1..Len(preds1) : preds1[i].period = resp.period + 1
  THEN Saved([trends |-> trends1, predictions |-> preds1], dsk, resp.write, <<>>)
  ELSE IF EngineRaises(Nums(trends1), Bss(trends1), preds1)
  THEN Result([trends |-> trends1, predictions |-> preds1], dsk, "failed", <<>>)
  ELSE WithPred(trends1, preds1, dsk, resp,
                dragonx_engine(Nums(trends1), Bss(trends1), preds1))

\* the cycle from the payload on, bs being get_bs of the number
Observed(st, dsk, resp, bs) ==
  AfterGrade(AppendLeft(st.trends,
                        [period |-> resp.period, num |-> resp.number, bs |-> bs],
                        TrendsMaxLen),
             Graded(st.predictions, resp.period, bs, resp.number),
             dsk, resp)

\* One cycle of prediction_job on the logs st and the file dsk.  resp is the
\* feed's answer: kind "ok" with a period and a number, or a kind that makes
\* requests.get, raise_for_status, res.json or the payload test raise.
prediction_job(st, dsk, resp) ==
  IF resp.kind # "ok" THEN Result(st, dsk, "failed", <<>>)
  ELSE Observed(st, dsk, resp, get_bs(resp.number))

\* ---------------------------------------------------------------- feed

MaxCycles == 3
PeriodBack == 1
FirstPeriod == 100
WarmupLen == 10
OutOfRange == 10

FeedNums == {2, 7}

Answer(period, number) ==
  [kind |-> "ok", period |-> period, number |-> number, write |-> "written"]

\* the newest period of the history that is an integer
LatestPeriod(trends) ==
  LET ok == {i \in 1..Len(trends) : trends[i].period # NonIntPeriod}
  IN IF ok = {} THEN FirstPeriod - 1
     ELSE trends[CHOOSE i \in ok : \A j \in ok : i <= j].period

\* the periods the feed may answer with: the next one, the same one again,
\* or one up to PeriodBack behind
FeedPeriods(trends) ==
  (LatestPeriod(trends) - PeriodBack)..(LatestPeriod(trends) + 1)

\* the logs and the file after the cycles of a feed, from a first start
RECURSIVE RunFeed(_, _)
RunFeed(r, feed) ==
  IF feed = <<>> THEN r
  ELSE RunFeed(prediction_job(r.state, r.disk, Head(feed)), Tail(feed))

\* earlier runs of the service: no run, one cycle, or WarmupLen cycles of a
\* feed of consecutive periods whose numbers are all 7, or 7 and 2 in turn
Warmups ==
  { <<>>,
    <<Answer(FirstPeriod + 1, 7)>>,
    [i \in 1..WarmupLen |-> Answer(FirstPeriod + i - 1, 7)],
    [i \in 1..WarmupLen |-> Answer(FirstPeriod + i - 1, IF i % 2 = 1 THEN 7 ELSE 2)] }

\* ---------------------------------------------------------------- the service

\* no cycle is under way; no request is being served
JobIdle == [pc |-> "idle", resp |-> Answer(NonIntPeriod, 0), pre |-> EmptyState]
ReaderIdle ==
  [pc |-> "idle", route |-> "none", trends |-> <<>>, predictions |-> <<>>, seen |-> {}]

\* the state in which the result r of a run leaves the service
Leaves(r) ==
  /\ state' = r.state
  /\ disk' = r.disk
  /\ outcome' = r.outcome
  /\ engine_out' = r.engine_out

\* bootstrap's load_history after the run that ended with r
Loaded(r) ==
  /\ state = load_history(EmptyState, r.disk)
  /\ disk = r.disk
  /\ outcome = "loaded"
  /\ engine_out = <<>>
  /\ cycles = 0
  /\ job = JobIdle
  /\ reader = ReaderIdle

\* The state after bootstrap's load_history: the logs an earlier run saved.
Init ==
  \E feed \in Warmups : Loaded(RunFeed(Result(EmptyState, NoFile, "loaded", <<>>), feed))

Apply(resp) ==
  /\ cycles < MaxCycles
  /\ Leaves(prediction_job(state, disk, resp))
  /\ cycles' = cycles + 1
  /\ UNCHANGED <<job, reader>>

\* the fetch times out, answers with an HTTP error, or with no usable payload
FetchFails ==
  \E kind \in {"timeout", "http_error", "bad_payload"} :
    Apply([kind |-> kind, period |-> NonIntPeriod, number |-> 0, write |-> "written"])

\* the feed answers with an observation and the file is written
Cycle ==
  \E period \in FeedPeriods(state.trends), number \in FeedNums :
    Apply(Answer(period, number))

\* the feed answers with an issueNumber that is no integer
CycleBadPeriod ==
  \E number \in FeedNums : Apply(Answer(NonIntPeriod, number))

\* the feed answers with a number outside 0..9
CycleBadNumber ==
  \E period \in FeedPeriods(state.trends) : Apply(Answer(period, OutOfRange))

\* the feed answers with the next observation and the write of the file fails
CycleWriteFails ==
  \E number \in FeedNums, write \in {"open_failed", "truncated"} :
    Apply([Answer(LatestPeriod(state.trends) + 1, number) EXCEPT !.write = write])

\* the process is started again: bootstrap's load_history on empty logs
Restart ==
  /\ outcome # "loaded"
  /\ state' = load_history(EmptyState, disk)
  /\ outcome' = "loaded"
  /\ engine_out' = <<>>
  /\ UNCHANGED <<disk, cycles, job, reader>>

Next ==
  \/ FetchFails
  \/ Cycle
  \/ CycleBadPeriod
  \/ CycleBadNumber
  \/ CycleWriteFails
  \/ Restart

Spec == Init /\ [][Next]_vars

\* ---------------------------------------------------------------- the engine alone

MaxHist == 10
MaxPrior == 2

\* a prediction record of an earlier cycle, as far as the engine reads it
Prior(bs, num, result) ==
  [period |-> FirstPeriod, bs |-> bs, num |-> num, confidence |-> 55,
   logic |-> "STATISTICAL_FALLBACK", bias |-> "NEUTRAL", result |-> result]

PriorRecords ==
  {Prior("B", 7, "Lose"), Prior("S", 2, "Lose"), Prior("B", 7, "Win"), Prior("S", 2, "P")}

SeqsUpTo(S, n) == UNION {[1..k -> S] : k \in 0..n}

\* the history of consecutive periods with the numbers nums, newest first
TrendsOf(nums) ==
  [i \in 1..Len(nums) |->
     [period |-> FirstPeriod + Len(nums) - i, num |-> nums[i], bs |-> get_bs(nums[i])]]

\* any history of up to MaxHist numbers with any log of up to MaxPrior predictions
InitEngine ==
  /\ \E nums \in SeqsUpTo(FeedNums, MaxHist), prior \in SeqsUpTo(PriorRecords, MaxPrior) :
       state = [trends |-> TrendsOf(nums), predictions |-> prior]
  /\ disk = NoFile
  /\ outcome = "input"
  /\ engine_out = <<>>
  /\ cycles = 0
  /\ job = JobIdle
  /\ reader = ReaderIdle

\* pred = dragonx_engine(recent_nums, recent_bs, list(state["predictions"]))
Call ==
  /\ outcome = "input"
  /\ ~EngineRaises(Nums(state.trends), Bss(state.trends), state.predictions)
  /\ engine_out' = <<dragonx_engine(Nums(state.trends), Bss(state.trends), state.predictions)>>
  /\ outcome' = "returned"
  /\ UNCHANGED <<state, disk, cycles, job, reader>>

NextEngine == Call

SpecEngine == InitEngine /\ [][NextEngine]_vars

\* ---------------------------------------------------------------- the engine on long histories

RecentLen == 10
ShortLen == 4
MidLen == 20

\* the newest observations: RecentLen or ShortLen numbers of the feed
RecentBlocks == [1..RecentLen -> FeedNums] \cup [1..ShortLen -> FeedNums]

\* the observations before them: none, all 7, all 2, or 7 and 2 in pairs
MidBlocks ==
  { <<>>,
    [i \in 1..MidLen |-> 7],
    [i \in 1..MidLen |-> 2],
    [i \in 1..MidLen |-> IF (i \div 2) % 2 = 0 THEN 7 ELSE 2] }

\* the oldest observations: none, or 5 or 40 of them, all 9 or all 4
OldBlocks == {<<>>} \cup { [i \in 1..n |-> v] : n \in {5, 40}, v \in {4, 9} }

\* the prediction log: empty, or one record
LongPriors == {<<>>} \cup {<<p>> : p \in PriorRecords}

\* a history of 4 to 70 numbers, newest first, with a log of at most one
\* prediction
InitEngineLong ==
  /\ \E recent \in RecentBlocks, mid \in MidBlocks, old \in OldBlocks,
        prior \in LongPriors :
       state = [trends |-> TrendsOf(recent \o mid \o old), predictions |-> prior]
  /\ disk = NoFile
  /\ outcome = "input"
  /\ engine_out = <<>>
  /\ cycles = 0
  /\ job = JobIdle
  /\ reader = ReaderIdle

SpecEngineLong == InitEngineLong /\ [][NextEngine]_vars

\* ---------------------------------------------------------------- cycle and requests

ConcCycles == 2

\* what a route answers with when the logs are st: get_history the first 50
\* of each log, get_prediction the newest prediction (none: the 404 answer)
View(route, st) ==
  IF route = "history"
  THEN [trends |-> FirstK(st.trends, 50), predictions |-> FirstK(st.predictions, 50)]
  ELSE [trends |-> <<>>, predictions |-> FirstK(st.predictions, 1)]

\* The scheduler's thread runs prediction_job statement by statement; the
\* interpreter lock makes each statement's access to a deque one step.

\* requests.get to get_bs: the payload is read, the logs are not touched
JobFetch ==
  /\ job.pc = "idle" /\ cycles < ConcCycles
  /\ \E period \in FeedPeriods(state.trends), number \in FeedNums :
       job' = [pc |-> "fetched", resp |-> Answer(period, number), pre |-> state]
  /\ UNCHANGED <<state, disk, outcome, engine_out, cycles, reader>>

\* state["trends"].appendleft(...)
JobAppend ==
  /\ job.pc = "fetched"
  /\ state' = [state EXCEPT !.trends =
                 AppendLeft(@, [period |-> job.resp.period, num |-> job.resp.number,
                                bs |-> get_bs(job.resp.number)], TrendsMaxLen)]
  /\ job' = [job EXCEPT !.pc = "appended"]
  /\ UNCHANGED <<disk, outcome, engine_out, cycles, reader>>

\* the grading of state["predictions"][0]
JobGrade ==
  /\ job.pc = "appended"
  /\ state' = [state EXCEPT !.predictions =
                 Graded(@, job.resp.period, get_bs(job.resp.number), job.resp.number)]
  /\ job' = [job EXCEPT !.pc = "graded"]
  /\ UNCHANGED <<disk, outcome, engine_out, cycles, reader>>

\* the engine's call and state["predictions"].appendleft(...)
JobPredict ==
  /\ job.pc = "graded"
  /\ state' = AfterGrade(state.trends, state.predictions, disk, job.resp).state
  /\ engine_out' = AfterGrade(state.trends, state.predictions, disk, job.resp).engine_out
  /\ job' = [job EXCEPT !.pc = "predicted"]
  /\ UNCHANGED <<disk, outcome, cycles, reader>>

\* save_history(): the cycle ends; a request under way has now overlapped
\* a cycle whose end state is the current one
JobSave ==
  /\ job.pc = "predicted"
  /\ disk' = save_history(state, disk, job.resp.write)
  /\ outcome' = "ok"
  /\ cycles' = cycles + 1
  /\ job' = JobIdle
  /\ reader' = IF reader.pc = "idle" THEN reader
               ELSE [reader EXCEPT !.seen = @ \cup {View(reader.route, state)}]
  /\ UNCHANGED <<state, engine_out>>

\* the logs as they were when the cycle under way began, or as they are
Boundary == IF job.pc = "idle" THEN state ELSE job.pre

\* get_history: list(state["trends"])[:50]
ReadTrends ==
  /\ reader.pc = "idle"
  /\ reader' = [pc |-> "trends_read", route |-> "history",
                trends |-> FirstK(state.trends, 50), predictions |-> <<>>,
                seen |-> {View("history", Boundary)}]
  /\ UNCHANGED <<state, disk, outcome, engine_out, cycles, job>>

\* get_history: list(state["predictions"])[:50]
ReadPredictions ==
  /\ reader.pc = "trends_read"
  /\ reader' = [reader EXCEPT !.pc = "done",
                              !.predictions = FirstK(state.predictions, 50)]
  /\ UNCHANGED <<state, disk, outcome, engine_out, cycles, job>>

\* get_prediction: state["predictions"][0], or the 404 answer
ReadPredict ==
  /\ reader.pc = "idle"
  /\ reader' = [pc |-> "done", route |-> "predict",
                trends |-> <<>>, predictions |-> FirstK(state.predictions, 1),
                seen |-> {View("predict", Boundary)}]
  /\ UNCHANGED <<state, disk, outcome, engine_out, cycles, job>>

\* the answer is sent
ReadReturn ==
  /\ reader.pc = "done"
  /\ reader' = ReaderIdle
  /\ UNCHANGED <<state, disk, outcome, engine_out, cycles, job>>

InitConc ==
  \E feed \in {<<>>, <<Answer(FirstPeriod + 1, 7)>>} :
    Loaded(RunFeed(Result(EmptyState, NoFile, "loaded", <<>>), feed))

NextConc ==
  \/ JobFetch
  \/ JobAppend
  \/ JobGrade
  \/ JobPredict
  \/ JobSave
  \/ ReadTrends
  \/ ReadPredictions
  \/ ReadPredict
  \/ ReadReturn

SpecConc == InitConc /\ [][NextConc]_vars

\* ---------------------------------------------------------------- the service with full logs

FullCycles == 2

\* the logs and the file after the cycles lo..hi of a feed; the first half of
\* the cycles is worked out before the second half is begun
RECURSIVE RunSpan(_, _, _, _)
RunSpan(r, feed, lo, hi) ==
  IF lo = hi
  THEN prediction_job(r.state, r.disk, feed[lo])
  ELSE CHOOSE out \in { RunSpan(half, feed, (lo + hi) \div 2 + 1, hi) :
                          half \in {RunSpan(r, feed, lo, (lo + hi) \div 2)} } : TRUE

\* an earlier run of TrendsMaxLen cycles of a feed of consecutive periods whose
\* numbers are 7, 7 and 2 in turn: both deques are at their maxlen
FullWarmups ==
  { [i \in 1..TrendsMaxLen |-> Answer(FirstPeriod + i - 1, IF i % 3 = 0 THEN 2 ELSE 7)] }

InitFull ==
  \E feed \in FullWarmups :
    Loaded(RunSpan(Result(EmptyState, NoFile, "loaded", <<>>), feed, 1, Len(feed)))

\* the cycles and restarts of the service, FullCycles cycles at most
NextFull ==
  \/ cycles < FullCycles /\ FetchFails
  \/ cycles < FullCycles /\ Cycle
  \/ cycles < FullCycles /\ CycleBadPeriod
  \/ cycles < FullCycles /\ CycleBadNumber
  \/ cycles < FullCycles /\ CycleWriteFails
  \/ cycles < FullCycles /\ Restart

SpecFull == InitFull /\ [][NextFull]_vars

\* ---------------------------------------------------------------- the service after a skip

ColdLows == 4

\* an earlier run of WarmupLen cycles of a feed of consecutive periods whose
\* numbers are ColdLows times 2 and then 7: the cold-start predictions that
\* follow the 2s are Small and lose against the 7s, and the last cycle of
\* the run stores a skip
DragonWarmups ==
  { [i \in 1..WarmupLen |-> Answer(FirstPeriod + i - 1, IF i <= ColdLows THEN 2 ELSE 7)] }

InitDragon ==
  \E feed \in DragonWarmups :
    Loaded(RunFeed(Result(EmptyState, NoFile, "loaded", <<>>), feed))

SpecDragon == InitDragon /\ [][Next]_vars

\* ---------------------------------------------------------------- properties of the engine

Returned == outcome = "returned"
Out == engine_out[1]
HistLen == Len(state.trends)
HistNums == [i \in 1..HistLen |-> state.trends[i].num]

\* the k most recent categories are the same
RunOf(k) == HistLen >= k /\ \A i \in 1..k : state.trends[i].bs = state.trends[1].bs

\* the k most recent categories, oldest first
Suffix(k) == [i \in 1..k |-> state.trends[k + 1 - i].bs]

InCatalogue(key) == \E k \in 1..Len(STREAK_BREAK_PATTERNS) : STREAK_BREAK_PATTERNS[k] = key

\* the positions of the n most recent predictions whose result is in results
MostRecent(n, results) ==
  LET hit == {i \in 1..Len(state.predictions) : state.predictions[i].result \in results}
  IN {i \in hit : Cardinality({j \in hit : j < i}) < n}

\* how many of the 3 most recent losses predicted the opposite of the newest category
FlipCount ==
  Cardinality({i \in MostRecent(3, {"Lose"}) :
                 state.predictions[i].bs = Opposite(state.trends[1].bs)})

\* more than 60% of the 10 most recent graded predictions are losses
Penalty ==
  LET graded == MostRecent(10, {"Win", "Lose", "Jackpot"})
  IN /\ graded # {}
     /\ 10 * Cardinality({i \in graded : state.predictions[i].result = "Lose"})
          > 6 * Cardinality(graded)

\* C1: on a history of fewer than 10 observations the engine returns the
\* statistical fallback whatever the prior predictions are: Big if the mean of
\* the numbers is at least 5 (or the history is empty) else Small, number 5,
\* confidence 55, rationale STATISTICAL_FALLBACK, bias NEUTRAL.
C1_ColdStartFallback ==
  Returned /\ HistLen < 10 =>
    Out = [bs |-> IF HistLen = 0 \/ Sum(HistNums) >= 5 * HistLen THEN "B" ELSE "S",
           num |-> 5, confidence |-> 55,
           logic |-> "STATISTICAL_FALLBACK", bias |-> "NEUTRAL"]

\* a run of 9 equal categories with two flip-losses on record still gets the fallback
C1_Witness ==
  /\ Returned /\ HistLen = 9 /\ RunOf(9) /\ FlipCount = 2
  /\ Out.logic = "STATISTICAL_FALLBACK"

\* C2: on a history of at least 10 observations that ends in a run of 6 or
\* more equal categories, with at least 2 of the 3 most recent losses having
\* predicted the opposite category, the engine returns SKIP with confidence 0,
\* no number and bias DRAGON_RISK.
C2_DragonSkip ==
  Returned /\ HistLen >= 10 /\ RunOf(6) /\ FlipCount >= 2 =>
    /\ Out.bs = "SKIP" /\ Out.confidence = 0
    /\ Out.num = NoNum /\ Out.bias = "DRAGON_RISK"

\* a run of exactly 6 with two flip-losses is skipped
C2_Witness ==
  /\ Returned /\ HistLen >= 10 /\ RunOf(6) /\ ~RunOf(7) /\ FlipCount >= 2
  /\ Out.bs = "SKIP"

InPool(bs, num) == IF bs = "B" THEN num \in 5..9 ELSE num \in 0..4

\* C3 as stated: whatever the history, the number of a Big prediction is in
\* 5..9 and the number of a Small prediction is in 0..4.
C3_NumberInPool ==
  Returned /\ Out.bs \in {"B", "S"} => InPool(Out.bs, Out.num)

\* C3 as amended: on a history of at least 10 observations the number of a
\* Big or Small prediction is in the pool of its category; on a shorter
\* history the number is 5 whatever the category.
C3_NumberInPoolPastColdStart ==
  Returned =>
    /\ HistLen >= 10 /\ Out.bs \in {"B", "S"} => InPool(Out.bs, Out.num)
    /\ HistLen < 10 => Out.num = 5

\* a Small prediction past the cold start, after a loss on the number 2
C3_Witness ==
  /\ Returned /\ HistLen >= 10 /\ Out.bs = "S" /\ Out.num \in 0..4
  /\ state.predictions # <<>> /\ state.predictions[1].result = "Lose"
  /\ state.predictions[1].num = 2

\* the 6 and the 5 most recent categories are catalogue patterns, no longer
\* suffix is, and the engine did not skip
BothMatch ==
  /\ Returned /\ HistLen >= 10 /\ Out.bs # "SKIP"
  /\ InCatalogue(Suffix(6)) /\ InCatalogue(Suffix(5))
  /\ \A k \in 7..10 : ~InCatalogue(Suffix(k))

\* C6 as stated: when both the 6-long and the 5-long suffix match and no
\* longer one does, the prediction is the opposite of the first category of
\* the 6-long suffix and the confidence is 90.
C6_LongestMatch ==
  BothMatch => Out.bs = Opposite(Suffix(6)[1]) /\ Out.confidence = 90

\* C6 as amended: the prediction is the opposite of the first category of the
\* 6-long suffix; the confidence is 90, or 75 when more than 60% of the 10
\* most recent graded predictions are losses.
C6_LongestMatchBase ==
  BothMatch =>
    /\ Out.bs = Opposite(Suffix(6)[1])
    /\ Out.logic = "6-digit MATCH"
    /\ Out.confidence = IF Penalty THEN 75 ELSE 90

\* the two suffixes would predict different categories, and the 6-long one wins
C6_Witness ==
  /\ BothMatch /\ Suffix(6)[1] # Suffix(5)[1] /\ ~Penalty
  /\ Out.confidence = 90

\* the 10 most recent categories alternate and end in Big, and no loss-rate
\* penalty is in effect
AlternatingToBig ==
  /\ Returned /\ HistLen >= 10 /\ ~Penalty
  /\ state.trends[1].bs = "B"
  /\ \A i \in 1..9 : state.trends[i].bs # state.trends[i + 1].bs

\* C7 as stated: the engine then predicts Small with rationale ALTERNATING
\* and confidence 82.
C7_Alternating ==
  AlternatingToBig =>
    Out.bs = "S" /\ Out.logic = "ALTERNATING" /\ Out.confidence = 82

\* C7 as amended: the 6 most recent categories S,B,S,B,S,B are a catalogue
\* pattern, so the engine predicts Big, the opposite of the pattern's first
\* category, with the rationale of a 6-digit match and confidence 90; the
\* alternating branch is not reached.
C7_AlternatingIsPattern ==
  AlternatingToBig =>
    Out.bs = "B" /\ Out.logic = "6-digit MATCH" /\ Out.confidence = 90

C7_Witness ==
  AlternatingToBig /\ state.predictions # <<>> /\ Out.bias = "PATTERN_BIAS"

\* the 8 most recent categories are Big and no flip-loss is on record
EightBig ==
  /\ Returned /\ HistLen >= 10 /\ RunOf(8) /\ state.trends[1].bs = "B"
  /\ FlipCount = 0

\* C8 as stated: the engine then does not skip, no suffix of length 5 to 10
\* is a catalogue pattern, and the alternating, dominance or momentum branch
\* decides the prediction.
C8_EightBigFallsThrough ==
  EightBig =>
    /\ Out.bs # "SKIP"
    /\ \A k \in 5..10 : ~InCatalogue(Suffix(k))
    /\ Out.logic \in {"ALTERNATING", "BIG DOMINANCE", "SMALL DOMINANCE", "MOMENTUM"}

\* C8 as amended: the engine does not skip; the 7 most recent categories are
\* the catalogue pattern of seven Big and no longer suffix is a pattern, so
\* the engine predicts Small by a 7-digit match with confidence 94 (79 under
\* the loss-rate penalty) and the fallback branches are not reached.
C8_EightBigIsPattern ==
  EightBig =>
    /\ Out.bs = "S" /\ Out.logic = "7-digit MATCH" /\ Out.bias = "PATTERN_BIAS"
    /\ InCatalogue(Suffix(7)) /\ \A k \in 8..10 : ~InCatalogue(Suffix(k))
    /\ Out.confidence = IF Penalty THEN 79 ELSE 94

\* eight Big after two Small, with a lost Big prediction on record
C8_Witness ==
  /\ EightBig /\ ~RunOf(9) /\ Penalty
  /\ Out.logic = "7-digit MATCH"

\* the engine returned a prediction that is no skip on a history of at least
\* 10 observations
Predicted == Returned /\ HistLen >= 10 /\ Out.bs # "SKIP"

\* the length of the longest suffix of 5 to 10 categories that is in the
\* catalogue, 0 if there is none
LongestMatch ==
  LET hits == {k \in 5..10 : HistLen >= k /\ InCatalogue(Suffix(k))}
  IN IF hits = {} THEN 0 ELSE CHOOSE k \in hits : \A j \in hits : j <= k

\* the base value of the branch that fired: of the pattern match by its
\* length, of a fallback branch by the rationale it gives
BranchBase ==
  CASE LongestMatch = 10 -> 98
    [] LongestMatch = 9 -> 97
    [] LongestMatch = 8 -> 96
    [] LongestMatch = 7 -> 94
    [] LongestMatch = 6 -> 90
    [] LongestMatch = 5 -> 60
    [] Out.logic \in {"BIG DOMINANCE", "SMALL DOMINANCE"} -> 85
    [] Out.logic = "MOMENTUM" -> 75
    [] Out.logic = "SHORT_STREAK_REVERSAL" -> 80
    [] Out.logic = "ALTERNATING" -> 82
    [] OTHER -> 60

\* C14: the confidence of a prediction that is no skip, on a history of at
\* least 10 observations, is the base value of the branch that fired, less
\* 15 but not under 55 exactly when more than 60% of the 10 most recent
\* graded predictions are losses, and the base value itself otherwise.
C14_ConfidenceOfBranch ==
  Predicted =>
    Out.confidence = IF Penalty THEN Max(55, BranchBase - 15) ELSE BranchBase

\* the floor is what counts: a 5-long match under the penalty gives 55, not 45
C14_Witness ==
  /\ Predicted /\ Penalty
  /\ LongestMatch = 5
  /\ Out.confidence = 55

\* the engine returned a prediction that is no skip, and no suffix of 5 to 10
\* categories is in the catalogue
NoMatch == Returned /\ Out.bs # "SKIP" /\ LongestMatch = 0

\* how many of the k most recent categories are Big
BigsIn(k) == Cardinality({i \in 1..Min(k, HistLen) : state.trends[i].bs = "B"})

\* the ladder of the fallback branches, each tried only when those above it
\* do not apply
Ladder ==
  IF RunOf(4) /\ ~RunOf(6)
  THEN [bs |-> Opposite(state.trends[1].bs), logic |-> "SHORT_STREAK_REVERSAL"]
  ELSE IF HistLen >= 10 /\ \A i \in 1..9 : state.trends[i].bs # state.trends[i + 1].bs
  THEN [bs |-> Opposite(state.trends[1].bs), logic |-> "ALTERNATING"]
  ELSE IF 100 * BigsIn(30) >= 72 * Min(30, HistLen)
  THEN [bs |-> "B", logic |-> "BIG DOMINANCE"]
  ELSE IF 100 * BigsIn(30) <= 28 * Min(30, HistLen)
  THEN [bs |-> "S", logic |-> "SMALL DOMINANCE"]
  ELSE [bs |-> state.trends[1].bs, logic |-> "MOMENTUM"]

\* C15 as stated: when no pattern of 5 to 10 categories matches and the
\* engine does not skip, the category is the one of the first branch of the
\* ladder that applies (short streak, alternation, dominance over the last
\* 30, momentum).
C15_Ladder ==
  NoMatch /\ HistLen > 0 => Out.bs = Ladder.bs

\* C15 as amended: on a history of at least 10 observations, when no pattern
\* matches and the engine does not skip, category and rationale are those of
\* the first branch of the ladder that applies.
C15_LadderPastColdStart ==
  NoMatch /\ HistLen >= 10 => Out.bs = Ladder.bs /\ Out.logic = Ladder.logic

\* Big dominates the last 30 categories though not the whole history, and
\* the newest category is Small: dominance fires, not momentum
C15_Witness ==
  /\ NoMatch /\ HistLen > 30
  /\ ~RunOf(4)
  /\ 100 * BigsIn(30) >= 72 * 30
  /\ 100 * BigsIn(HistLen) < 72 * HistLen
  /\ state.trends[1].bs = "S"
  /\ Out.bs = "B" /\ Out.logic = "BIG DOMINANCE"

\* how often n is among the k most recent observations
Occurrences(n, k) ==
  Cardinality({i \in 1..Min(k, HistLen) : state.trends[i].num = n})

\* more than 5 of the 10 most recent observations are even
EvenBias == Cardinality({i \in 1..Min(10, HistLen) : state.trends[i].num % 2 = 0}) > 5

\* ten times the score of candidate n over the most recent observations
RecentScore(n) ==
  10 * (1 + Occurrences(n, 60))
  + (IF Occurrences(n, 10) > 0 THEN 12 ELSE 0)
  + (IF (n % 2 = 0) = EvenBias THEN 7 ELSE 0)

\* the pool of the predicted category
PoolOf(bs) == IF bs = "B" THEN 5..9 ELSE 0..4

\* the newest prediction of the log is a loss, whose number is taken out
Excluding == state.predictions # <<>> /\ state.predictions[1].result = "Lose"

\* C16: on a newest-first history of at least 10 observations the number of
\* a prediction is the member of the pool with the highest score, the score
\* being 1 + its occurrences among the 60 most recent observations, +1.2 if
\* it is among the 10 most recent, +0.7 if its parity is the majority parity
\* of the 10 most recent; of equal scores the smallest number wins.
C16_HighestRecentScore ==
  Predicted /\ ~Excluding =>
    /\ Out.num \in PoolOf(Out.bs)
    /\ \A m \in PoolOf(Out.bs) :
         \/ RecentScore(m) < RecentScore(Out.num)
         \/ RecentScore(m) = RecentScore(Out.num) /\ Out.num <= m

\* C17: when the newest prediction of the log is a loss, the number of the
\* new prediction is not the number of that loss; when it has another result
\* or the log is empty, the number is the best of the whole pool, no
\* candidate being left out.
C17_LastLossExcluded ==
  Predicted =>
    /\ Out.num \in PoolOf(Out.bs)
    /\ IF Excluding
       THEN Out.num # state.predictions[1].num
       ELSE \A m \in PoolOf(Out.bs) :
              \/ Score(m, HistNums) < Score(Out.num, HistNums)
              \/ Score(m, HistNums) = Score(Out.num, HistNums) /\ Out.num <= m

\* the number of the last loss is in the pool and scores higher than the
\* number returned: it was taken out
C17_Witness ==
  /\ Predicted /\ Excluding
  /\ state.predictions[1].num \in PoolOf(Out.bs)
  /\ Score(state.predictions[1].num, HistNums) > Score(Out.num, HistNums)

\* ---------------------------------------------------------------- properties of the cycle

Stored == state.predictions

\* C4 as stated: every prediction in the prediction log has a confidence
\* between 55 and 98.
C4_ConfidenceRange ==
  \A i \in 1..Len(Stored) : Stored[i].confidence \in 55..98

\* C4 as amended: every prediction in the log whose category is Big or Small
\* has a confidence between 55 and 98; a stored SKIP has confidence 0.
C4_ConfidenceRangeUnlessSkip ==
  \A i \in 1..Len(Stored) :
    IF Stored[i].bs = "SKIP" THEN Stored[i].confidence = 0
    ELSE Stored[i].confidence \in 55..98

\* a log with a SKIP, a pattern prediction and one floored by the loss-rate penalty
C4_Witness ==
  /\ \E i \in 1..Len(Stored) : Stored[i].bs = "SKIP" /\ Stored[i].confidence = 0
  /\ \E i \in 1..Len(Stored) : Stored[i].confidence = 94

\* the floor is reached: a 5-digit match under the loss-rate penalty is stored with 55
C4_FloorReached ==
  \E i \in 1..Len(Stored) :
    Stored[i].logic = "5-digit MATCH" /\ Stored[i].confidence = 55

\* the step is one cycle of prediction_job
CycleStep == cycles' = cycles + 1

\* the k-th oldest prediction of the log
Oldest(log, k) == log[Len(log) + 1 - k]

\* C5: a cycle of prediction_job leaves the result of every prediction that
\* is already Win, Lose or Jackpot as it is.
C5_GradedOnce ==
  [][CycleStep =>
       \A k \in 1..Len(state.predictions) :
          Oldest(state.predictions, k).result # "P" =>
            /\ Len(state'.predictions) >= k
            /\ Oldest(state'.predictions, k).result = Oldest(state.predictions, k).result]_vars

\* C9: a cycle of prediction_job that fails leaves the history log, the
\* prediction log and the file as they were.
C9_FailedCycleChangesNothing ==
  [][CycleStep /\ outcome' = "failed" => state' = state /\ disk' = disk]_vars

\* ---------------------------------------------------------------- properties of the requests

\* C10: what a request that ran beside a cycle answers with is what the
\* logs held before the cycle or what they hold after it.
C10_ReaderSeesCycleBoundary ==
  reader.pc = "done" /\ job.pc = "idle" =>
    [trends |-> reader.trends, predictions |-> reader.predictions] \in reader.seen

\* the cycle taken step by step ends where prediction_job as a whole does
StepsAreTheJob ==
  job.pc = "predicted" =>
    state = prediction_job(job.pre, disk, job.resp).state

\* ---------------------------------------------------------------- properties of the logs

\* the logs a new process has after load_history reads what save_history
\* writes from the present logs, the write succeeding
ReadBack == load_history(EmptyState, save_history(state, disk, "written"))

\* C11: save_history followed by load_history, with no corruption and no
\* write failure, gives back the history and the prediction log with the same
\* entries in the same index order, in deques of maxlen 1000 and 200.
C11_RoundTrip ==
  /\ ReadBack.trends = state.trends
  /\ ReadBack.predictions = state.predictions
  /\ Len(ReadBack.trends) <= TrendsMaxLen
  /\ Len(ReadBack.predictions) <= PredictionsMaxLen

\* a restart has read back both logs at their maxlen, the newest observation
\* being one that a cycle of this run saved
C11_Witness ==
  /\ outcome = "loaded"
  /\ cycles > 0
  /\ Len(state.trends) = TrendsMaxLen
  /\ Len(state.predictions) = PredictionsMaxLen
  /\ state.trends[1].period = FirstPeriod + TrendsMaxLen
  /\ state.predictions[1].period = FirstPeriod + TrendsMaxLen + 1

\* a cycle whose fetch gave an observation: it is put on the history
Fetched == CycleStep /\ state'.trends # state.trends

\* by how many places the cycle moved the entries of the prediction log
Shift ==
  IF state.predictions # <<>> /\ state'.predictions[1].period = state.predictions[1].period
  THEN 0 ELSE 1

\* C12: in a cycle that fetches the observation of period N while the newest
\* prediction is Pending with period N, its result becomes Jackpot when
\* category and number both equal the observed ones, Win when only the
\* category does, Lose otherwise; in a cycle whose newest prediction has
\* another period, no result in the log changes.
C12_Grading ==
  [][ Fetched /\ state.predictions # <<>> =>
        LET obs == state'.trends[1]
            last == state.predictions[1]
        IN IF last.period = obs.period
           THEN last.result = "P" =>
                  state'.predictions[1 + Shift].result =
                    IF last.bs = obs.bs /\ last.num = obs.num THEN "Jackpot"
                    ELSE IF last.bs = obs.bs THEN "Win"
                    ELSE "Lose"
           ELSE \A i \in 1..Len(state.predictions) :
                  i + Shift <= Len(state'.predictions) =>
                    state'.predictions[i + Shift].result = state.predictions[i].result
    ]_vars

\* a cycle of this run graded the prediction of its period Jackpot and
\* appended the next one
C12_Witness ==
  /\ cycles > 0
  /\ outcome = "ok"
  /\ Len(state.predictions) >= 2
  /\ state.predictions[2].period = state.trends[1].period
  /\ state.predictions[2].result = "Jackpot"
  /\ state.predictions[1].result = "P"

\* the entries of a prediction log, whatever their results
Entries(log) == [i \in 1..Len(log) |-> [log[i] EXCEPT !.result = "P"]]

\* new is old with one entry put at index 0: the entries of old follow in
\* their order, and only when old was at cap its last entry is gone
InsertedAtFront(old, new, cap) ==
  /\ Len(new) = Min(Len(old) + 1, cap)
  /\ \A i \in 1..(Len(new) - 1) : new[i + 1] = old[i]

\* new holds the entries of old, each at its index
NothingInserted(old, new) ==
  /\ Len(new) = Len(old)
  /\ \A i \in 1..Len(old) : new[i] = old[i]

\* C13: the history never holds more than 1000 entries and the prediction
\* log never more than 200; whatever a cycle inserts goes to index 0, the
\* entries already there keep their order, and a full log loses exactly its
\* last entry.
C13_BoundedLogs ==
  /\ [](Len(state.trends) <= TrendsMaxLen /\ Len(state.predictions) <= PredictionsMaxLen)
  /\ [][ CycleStep =>
          /\ \/ NothingInserted(state.trends, state'.trends)
             \/ InsertedAtFront(state.trends, state'.trends, TrendsMaxLen)
          /\ \/ NothingInserted(Entries(state.predictions), Entries(state'.predictions))
             \/ InsertedAtFront(Entries(state.predictions), Entries(state'.predictions),
                                PredictionsMaxLen)
      ]_vars

\* a cycle of this run has put an observation and a prediction on logs that
\* were full: the oldest entry of each is gone and the second oldest is last
C13_Witness ==
  /\ cycles = 1
  /\ outcome = "ok"
  /\ Len(state.trends) = TrendsMaxLen
  /\ Len(state.predictions) = PredictionsMaxLen
  /\ state.trends[1].period = FirstPeriod + TrendsMaxLen
  /\ state.trends[TrendsMaxLen].period = FirstPeriod + 1
  /\ state.predictions[1].period = FirstPeriod + TrendsMaxLen + 1
  /\ state.predictions[PredictionsMaxLen].period =
       FirstPeriod + TrendsMaxLen - PredictionsMaxLen + 2

\* the cycle put a prediction on the log
Appended == ~NothingInserted(Entries(state.predictions), Entries(state'.predictions))

\* the log already holds a prediction for the period after the fetched one
NextPeriodKnown ==
  \E i \in 1..Len(state.predictions) :
    state.predictions[i].period = state'.trends[1].period + 1

\* C18: from empty logs on, no two predictions of the log have the same
\* period; a prediction is put on the log with result Pending and the period
\* after the one its cycle fetched; and a cycle whose next period already has
\* a prediction puts none on the log.
C18_OnePredictionPerPeriod ==
  /\ [](\A i, j \in 1..Len(state.predictions) :
          i # j => state.predictions[i].period # state.predictions[j].period)
  /\ [][ CycleStep =>
          /\ Appended =>
               /\ Fetched
               /\ state'.predictions[1].result = "P"
               /\ state'.predictions[1].period = state'.trends[1].period + 1
          /\ Fetched /\ NextPeriodKnown => ~Appended
      ]_vars

\* a cycle of this run fetched an earlier period again: the period after it
\* has its prediction further down the log, and none was added
C18_Witness ==
  /\ cycles > 0
  /\ outcome = "ok"
  /\ engine_out = <<>>
  /\ \E i \in 2..Len(state.predictions) :
       state.predictions[i].period = state.trends[1].period + 1

\* the cycle ended with a prediction of the engine on the log
Answered == outcome = "ok" /\ engine_out # <<>>

\* the newest prediction is a skip that waits for the observation the cycle fetches
SkipAwaited ==
  /\ Fetched
  /\ state.predictions # <<>>
  /\ state.predictions[1].bs = "SKIP"
  /\ state.predictions[1].result = "P"
  /\ state.predictions[1].period = state'.trends[1].period

\* C19: a stored skip is graded Lose when the observation of its period
\* comes while it is the newest prediction; after that it is one of the
\* losses of the loss-rate window, and one of the 3 most recent losses the
\* skip test looks at, where it is never a flip-loss.
C19_SkipIsALoss ==
  /\ [][ SkipAwaited => state'.predictions[1 + Shift].result = "Lose" ]_vars
  /\ [](Answered /\ HistLen >= 10 =>
          /\ (Out.bs = "SKIP") = (RunOf(6) /\ FlipCount >= 2)
          /\ Out.bs # "SKIP" =>
               Out.confidence = IF Penalty THEN Max(55, BranchBase - 15) ELSE BranchBase)

\* two skips were graded Lose and fill two of the 3 slots, so the flip-losses
\* behind them no longer make the engine skip; the two skips are what takes
\* the loss rate over 60%
C19_Witness ==
  /\ Answered /\ cycles > 0 /\ RunOf(6)
  /\ Out.bs # "SKIP"
  /\ Len(state.predictions) >= 5
  /\ \A i \in 2..3 : state.predictions[i].bs = "SKIP" /\ state.predictions[i].result = "Lose"
  /\ \A i \in 4..5 : /\ state.predictions[i].bs = Opposite(state.trends[1].bs)
                      /\ state.predictions[i].result = "Lose"
  /\ Penalty
  /\ Out.confidence = BranchBase - 15

\* the history is that of a feed whose periods never went down and whose
\* every answer was an integer period with a number of 0..9
FeedNeverDecreased ==
  /\ \A i \in 1..HistLen :
       state.trends[i].period # NonIntPeriod /\ state.trends[i].num \in 0..9
  /\ \A i \in 1..(HistLen - 1) : state.trends[i].period >= state.trends[i + 1].period

\* C20: when the periods of the feed never decrease, the history holds at
\* most one observation per period after any successful cycle: fetching a
\* period again adds no second entry.
C20_OneObservationPerPeriod ==
  outcome = "ok" /\ FeedNeverDecreased =>
    \A i, j \in 1..HistLen :
      i # j => state.trends[i].period # state.trends[j].period
====
